---------------------------- MODULE Spec2Model ----------------------------
(***************************************************************************)
(* A model of the trading system's core: the paper-trading order manager   *)
(* (trading_system/oms.py), the two backtest loops                         *)
(* (trading_system/backtester.py and                                       *)
(* sistema_de_trading/backtesting/event_backtester.py), the portfolio      *)
(* optimizer (sistema_de_trading/optimization/portfolio_optimizer.py) and  *)
(* the risk monitor (trading_system/risk_management.py).                   *)
(*                                                                         *)
(* Each component has its own specification over its own variables; the    *)
(* variables of the other components stay at their initial values.         *)
(***************************************************************************)
EXTENDS Integers, Sequences, FiniteSets, TLC

VARIABLES
    \* ---- PaperTradingOMS (oms.py) ----
    cash,                 \* self.cash, an exact fixed-point amount
    positions,            \* self.positions: ticker -> [qty, price, value]
    total_value,          \* self.total_value
    idempotency_registry, \* self.idempotency_registry: set of keys
    expected_costs,       \* self.expected_costs: order id -> cost
    equity_curve,         \* self.equity_curve: list of total values
    now,                  \* the clock read by time.time(), in milliseconds
    calls,                \* history: one record per completed send_order call
    th,                   \* the concurrent callers of send_order (SpecConc)
    \* ---- Backtester.run, the date loop (backtester.py) ----
    panel,                \* the pivoted panel: per date the scores and ret_1d
    kelly_out,            \* per date, what bayesian_kelly returns on that date
    bt_i,                 \* rows of the panel the loop has processed
    prev_weights,         \* prev_weights
    weights_hist,         \* weights_hist
    returns_hist,         \* returns_hist
    turnover_hist,        \* turnover_hist
    kelly_rows,           \* history: per date, the panel rows given to bayesian_kelly
    bt_raised,            \* the loop ended with a ValueError
    bt_metrics,           \* <<>> before the metrics are computed, then the metrics
    \* ---- EventDrivenBacktester.run_backtest (event_backtester.py) ----
    prices,               \* prices: per date the close of each column
    signals,              \* date_to_weights: per date no entry or a series
    edb_i,                \* dates the loop has processed
    capital,              \* capital: the steps applied to initial_capital
    current_weights,      \* current_weights
    edb_equity_curve,     \* equity_curve
    trades,               \* trades
    port_returns,         \* history: portfolio_return of each date after the first
    weights_after,        \* history: current_weights after each date
    \* ---- PortfolioOptimizer.optimize_weights (portfolio_optimizer.py) ----
    opt_in,               \* the arguments of the call and whether cvxpy imports
    opt_solver,           \* what the solvers did in the call
    opt_out,              \* <<>> before the call, then what it returned or raised
    \* ---- check_risk_limits_with_cooldown (risk_management.py) ----
    risk_in,              \* the arguments of the call
    risk_out,             \* the dicts returned by the calls made so far
    \* ---- cpcv_time_series_folds (utils/metrics.py) ----
    cpcv_in,              \* the arguments of the call: the rows of df and n_splits
    cpcv_out,             \* <<>> before the call, then the returned list of folds
    \* ---- bayesian_kelly, the participation cap (risk_management.py) ----
    kelly_in,             \* the weights bayesian_kelly has before its cap, and its accessors
    kelly_res,            \* <<>> before the cap, then the returned weights
    \* ---- StrategicAgent.cpcv_validate ----
    sharpe_scores,        \* the Sharpe ratio cpcv_validate computed for each fold
    pbo                   \* <<>> before pbo is computed, then the value reported

omsVars == <<cash, positions, total_value, idempotency_registry,
             expected_costs, equity_curve, now, calls, th>>

btVars == <<panel, kelly_out, bt_i, prev_weights, weights_hist, returns_hist,
            turnover_hist, kelly_rows, bt_raised, bt_metrics>>

edbVars == <<prices, signals, edb_i, capital, current_weights,
             edb_equity_curve, trades, port_returns, weights_after>>
optVars == <<opt_in, opt_solver, opt_out>>
riskVars == <<risk_in, risk_out>>
cpcvVars == <<cpcv_in, cpcv_out>>
kellyVars == <<kelly_in, kelly_res>>
pboVars == <<sharpe_scores, pbo>>
vars == <<omsVars, btVars, edbVars, optVars, riskVars, cpcvVars, kellyVars, pboVars>>

\* what an action of one component leaves alone
notOms == <<btVars, edbVars, optVars, riskVars, cpcvVars, kellyVars, pboVars>>
notBt == <<omsVars, edbVars, optVars, riskVars, cpcvVars, kellyVars, pboVars>>
notEdb == <<omsVars, btVars, optVars, riskVars, cpcvVars, kellyVars, pboVars>>
notOpt == <<omsVars, btVars, edbVars, riskVars, cpcvVars, kellyVars, pboVars>>
notRisk == <<omsVars, btVars, edbVars, optVars, cpcvVars, kellyVars, pboVars>>
notCpcv == <<omsVars, btVars, edbVars, optVars, riskVars, kellyVars, pboVars>>
notKelly == <<omsVars, btVars, edbVars, optVars, riskVars, cpcvVars, pboVars>>
notPbo == <<omsVars, btVars, edbVars, optVars, riskVars, cpcvVars, kellyVars>>

\* a component that is not run: nothing constructed, nothing processed
BtIdle ==
    /\ panel = <<>>
    /\ kelly_out = <<>>
    /\ bt_i = 0
    /\ prev_weights = <<>>
    /\ weights_hist = <<>>
    /\ returns_hist = <<>>
    /\ turnover_hist = <<>>
    /\ kelly_rows = <<>>
    /\ bt_raised = FALSE
    /\ bt_metrics = <<>>

EdbIdle ==
    /\ prices = <<>>
    /\ signals = <<>>
    /\ edb_i = 0
    /\ capital = <<>>
    /\ current_weights = <<>>
    /\ edb_equity_curve = <<>>
    /\ trades = {}
    /\ port_returns = <<>>
    /\ weights_after = <<>>

OptIdle == opt_in = <<>> /\ opt_solver = <<>> /\ opt_out = <<>>

RiskIdle == risk_in = <<>> /\ risk_out = <<>>

CpcvIdle == cpcv_in = <<>> /\ cpcv_out = <<>>

KellyIdle == kelly_in = <<>> /\ kelly_res = <<>>

PboIdle == sharpe_scores = <<>> /\ pbo = <<>>

-----------------------------------------------------------------------------
(***************************************************************************)
(* Bounds of the model.                                                    *)
(***************************************************************************)
\* send_order calls in one run of the sequential order manager
MaxCalls == 2
\* the clock advances at most this many milliseconds
MaxClock == 1
\* dates of the longest panel Backtester.run is given
MaxDates == 62
\* dates of the longest price table run_backtest is given
MaxEdbDates == 3
\* bars of the longest P&L series the risk check is given
MaxBars == 101
\* rows of the longest df cpcv_time_series_folds is given, and the most blocks
MaxRows == 10
MaxSplits == 8
\* calls of the risk check made on one input
MaxChecks == 2
\* the most folds cpcv_validate scores
MaxFolds == 4

-----------------------------------------------------------------------------
(***************************************************************************)
(* Exact amounts.  Python floats are modelled as exact numbers written in  *)
(* base 4000: <<c0, d1, d2, ...>> stands for c0 + d1/4000 + d2/4000^2 ...  *)
(* with c0 any integer and every d in 0..3999, no trailing zero.  Every    *)
(* rate of oms.py (0.0005, 0.5 * 5/10000, 0.1 * 0.01, 0.01 * sqrt(0.01))   *)
(* is a whole multiple of 1/4000, so all amounts are exact.                *)
(***************************************************************************)
Base == 4000

RECURSIVE FxTrim(_)
FxTrim(p) ==
    IF Len(p) > 1 /\ p[Len(p)] = 0 THEN FxTrim(SubSeq(p, 1, Len(p) - 1)) ELSE p

RECURSIVE FxCarry(_, _)
FxCarry(p, k) ==
    IF k <= 1 THEN p
    ELSE LET d == p[k]
             r == d % Base
             q == (d - r) \div Base
         IN  FxCarry([p EXCEPT ![k] = r, ![k - 1] = @ + q], k - 1)

FxNorm(p) == FxTrim(FxCarry(p, Len(p)))

FxInt(n) == <<n>>

FxPad(p, n) == [i \in 1..n |-> IF i <= Len(p) THEN p[i] ELSE 0]

FxMaxLen(a, b) == IF Len(a) >= Len(b) THEN Len(a) ELSE Len(b)

FxAdd(a, b) ==
    LET n == FxMaxLen(a, b)
    IN  FxNorm([i \in 1..n |-> FxPad(a, n)[i] + FxPad(b, n)[i]])

FxScale(k, a) == FxNorm([i \in 1..Len(a) |-> k * a[i]])

FxNeg(a) == FxScale(-1, a)

FxSub(a, b) == FxAdd(a, FxNeg(b))

\* a / 4000
FxShift(a) == FxNorm(<<0>> \o a)

\* a > 0, a < b
FxPos(a) == a[1] > 0 \/ (a[1] = 0 /\ Len(a) > 1)
FxLess(a, b) == FxPos(FxSub(b, a))

Abs(n) == IF n < 0 THEN -n ELSE n

-----------------------------------------------------------------------------
(***************************************************************************)
(* Strings are sequences of one-character strings, so that formatting and  *)
(* prefix tests are computed and not assumed.  Python's None is NoneStr,   *)
(* which is no string.                                                     *)
(***************************************************************************)
NoneStr == <<"<None>">>

LowerCase == <<"a","b","c","d","e","f","g","h","i","j","k","l","m",
               "n","o","p","q","r","s","t","u","v","w","x","y","z">>
UpperCase == <<"A","B","C","D","E","F","G","H","I","J","K","L","M",
               "N","O","P","Q","R","S","T","U","V","W","X","Y","Z">>

UpperChar(c) ==
    IF \E i \in 1..Len(LowerCase) : LowerCase[i] = c
    THEN UpperCase[CHOOSE i \in 1..Len(LowerCase) : LowerCase[i] = c]
    ELSE c

\* str.upper()
Upper(s) == [i \in 1..Len(s) |-> UpperChar(s[i])]

\* str.startswith(prefix)
StartsWith(s, prefix) ==
    Len(s) >= Len(prefix) /\ SubSeq(s, 1, Len(prefix)) = prefix

DigitChars == <<"0","1","2","3","4","5","6","7","8","9">>

\* str(n) for a non-negative integer
RECURSIVE Decimal(_)
Decimal(n) ==
    IF n < 10 THEN <<DigitChars[n + 1]>>
    ELSE Decimal(n \div 10) \o <<DigitChars[(n % 10) + 1]>>


-----------------------------------------------------------------------------
(***************************************************************************)
(* PaperTradingOMS (trading_system/oms.py).                                *)
(*                                                                         *)
(* Optional and ill-typed arguments: limit_price and qty are <<n>> for the *)
(* number n; limit_price <<>> is None, qty <<>> is an object that is no    *)
(* number (abs() of it raises TypeError).  side and client_order_id are    *)
(* strings or NoneStr.                                                     *)
(***************************************************************************)
\* __init__: initial_cash=25_000.0
InitialCash == 25000
\* reference_price: the default of .get("price", 100.0)
DefaultReferencePrice == 100
\* estimate_cost, in units of 1/4000: 0.0005, 0.5 * (5.0 / 10_000.0),
\* 0.1 * 0.01 and 0.01 * 1.0 * sqrt(0.01)
CommissionRate == 2
SpreadRate == 1
PermanentRate == 4
TemporaryRate == 4
\* send_order: the slip 0.0005 of the fill price, in units of 1/4000
SlipRate == 2

\* Python truthiness of an optional string / an optional number
TruthyStr(s) == s # NoneStr /\ Len(s) > 0
TruthyNum(x) == Len(x) = 1 /\ x[1] # 0
IsNumber(x) == Len(x) = 1
IsStr(s) == s # NoneStr

\* client_order_id or f"{ticker}-{int(time.time() * 1000)}"
OrderId(ticker, client_order_id, clock) ==
    IF TruthyStr(client_order_id) THEN client_order_id
    ELSE ticker \o <<"-">> \o Decimal(clock)

\* idempotency_key: the text f"{account_id}:{ticker}:{client_order_id}" that is
\* hashed; SHA-256 is taken to be injective, so the key is the text itself.
IdempotencyKey(account_id, ticker, client_order_id) ==
    account_id \o <<":">> \o ticker \o <<":">> \o client_order_id

\* reference_price
ReferencePrice(pos, ticker) ==
    IF ticker \in DOMAIN pos THEN pos[ticker].price
    ELSE FxInt(DefaultReferencePrice)

\* price_ref = limit_price if limit_price else self.reference_price(ticker)
PriceRef(pos, ticker, limit_price) ==
    IF TruthyNum(limit_price) THEN FxInt(limit_price[1])
    ELSE ReferencePrice(pos, ticker)

\* estimate_cost with the default spread_bps, participation and vol_cone
EstimateCost(qty, price) ==
    FxShift(FxScale((CommissionRate + SpreadRate + PermanentRate + TemporaryRate)
                        * Abs(qty), price))

IsBuy(side) == StartsWith(Upper(side), <<"B", "U", "Y">>)

\* price_ref * (1 + (0.0005 if BUY else -0.0005))
FillPriceInverted(price_ref, side) ==
    FxAdd(price_ref,
          FxShift(FxScale(IF IsBuy(side) THEN -SlipRate ELSE SlipRate, price_ref)))
FillPrice(price_ref, side) ==
    FxAdd(price_ref,
          FxShift(FxScale(IF IsBuy(side) THEN SlipRate ELSE -SlipRate, price_ref)))

Sign(side) == IF IsBuy(side) THEN 1 ELSE -1

\* lines 87-90: the position after the fill
PositionAfter(pos, ticker, side, qty, fill_price) ==
    LET old == IF ticker \in DOMAIN pos THEN pos[ticker]
               ELSE [qty |-> 0, price |-> fill_price, value |-> FxInt(0)]
        q   == old.qty + Sign(side) * qty
    IN  [qty |-> q, price |-> fill_price, value |-> FxScale(q, fill_price)]

\* a dict with one entry set
Put(d, k, v) == [x \in DOMAIN d \cup {k} |-> IF x = k THEN v ELSE d[x]]

EmptyDict == [x \in {} |-> 0]

RECURSIVE SumValues(_, _)
SumValues(pos, keys) ==
    IF keys = {} THEN FxInt(0)
    ELSE LET k == CHOOSE x \in keys : TRUE
         IN  FxAdd(pos[k].value, SumValues(pos, keys \ {k}))

\* get_portfolio_value
PortfolioValue(c, pos) == FxAdd(c, SumValues(pos, DOMAIN pos))

\* self.cash -= sign * filled_qty * fill_price + exp_cost
CashAfterNoCost(c, side, qty, fill_price, exp_cost) ==
    FxSub(c, FxScale(Sign(side) * qty, fill_price))
CashAfter(c, side, qty, fill_price, exp_cost) ==
    FxSub(c, FxAdd(FxScale(Sign(side) * qty, fill_price), exp_cost))

\* the inputs of the model
AcctA == <<"a">>
AcctAB == <<"a", ":", "b">>
TickC == <<"c">>
TickBC == <<"b", ":", "c">>
Books == {<<AcctA, TickC>>, <<AcctA, TickBC>>, <<AcctAB, TickC>>}
Sides == {<<"B", "U", "Y">>, <<"s", "e", "l", "l">>}
Qtys == {<<100>>}
NotANumber == <<>>
Limits == {<<>>, <<50>>}
Tokens == {NoneStr, <<"k">>}

Requests ==
    [book : Books, side : Sides, qty : Qtys, limit_price : Limits,
     client_order_id : Tokens]
    \cup [book : Books, side : {NoneStr}, qty : Qtys, limit_price : {<<>>},
          client_order_id : Tokens]
    \cup [book : Books, side : {<<"B", "U", "Y">>}, qty : {NotANumber},
          limit_price : {<<>>}, client_order_id : Tokens]

\* the order manager's fields as one value
OmsState ==
    [cash |-> cash, positions |-> positions, total_value |-> total_value,
     idempotency_registry |-> idempotency_registry,
     expected_costs |-> expected_costs, equity_curve |-> equity_curve]

\* __init__
NewOMS ==
    [cash |-> FxInt(InitialCash), positions |-> EmptyDict,
     total_value |-> FxInt(InitialCash), idempotency_registry |-> {},
     expected_costs |-> EmptyDict, equity_curve |-> <<>>]

\* line 73: if key in self.idempotency_registry
SeenNever(registry, key) == FALSE
Seen(registry, key) == key \in registry

\* lines 86-93: the fill's effect on the order manager
FillBeforeRefresh(s, ticker, side, qty, fill_price, exp_cost) ==
    LET pos2  == Put(s.positions, ticker,
                     PositionAfter(s.positions, ticker, side, qty, fill_price))
        cash2 == CashAfter(s.cash, side, qty, fill_price, exp_cost)
    IN  [s EXCEPT !.cash = cash2, !.positions = pos2,
                  !.equity_curve = Append(@, s.total_value)]
Fill(s, ticker, side, qty, fill_price, exp_cost) ==
    LET pos2  == Put(s.positions, ticker,
                     PositionAfter(s.positions, ticker, side, qty, fill_price))
        cash2 == CashAfter(s.cash, side, qty, fill_price, exp_cost)
        tv    == PortfolioValue(cash2, pos2)
    IN  [s EXCEPT !.cash = cash2, !.positions = pos2, !.total_value = tv,
                  !.equity_curve = Append(@, tv)]

\* send_order run to its end by a single caller at clock time `clock`:
\* the order manager afterwards and what the call returned ("RAISED": an
\* exception left the call)
SendOrderEffect(s, r, clock) ==
    LET account_id == r.book[1]
        ticker     == r.book[2]
        order_id   == OrderId(ticker, r.client_order_id, clock)
        key        == IdempotencyKey(account_id, ticker, order_id)
        price_ref  == PriceRef(s.positions, ticker, r.limit_price)
        s75        == [s EXCEPT !.idempotency_registry = @ \cup {key}]
    IN
    IF Seen(s.idempotency_registry, key)
    THEN \* lines 73-74
         [state |-> s, order_id |-> order_id, key |-> key,
          result |-> [status |-> "IGNORED_DUPLICATE", client_order_id |-> order_id]]
    ELSE IF ~IsNumber(r.qty)
    THEN \* estimate_cost raises TypeError at abs(qty), line 78
         [state |-> s75, order_id |-> order_id, key |-> key,
          result |-> [status |-> "RAISED", client_order_id |-> order_id]]
    ELSE
      LET qty      == r.qty[1]
          exp_cost == EstimateCost(qty, price_ref)
          s79      == [s75 EXCEPT !.expected_costs = Put(@, order_id, exp_cost)]
      IN
      IF ~IsStr(r.side)
      THEN \* side.upper() raises AttributeError, line 81
           [state |-> s79, order_id |-> order_id, key |-> key,
            result |-> [status |-> "RAISED", client_order_id |-> order_id]]
      ELSE
        LET fill_price == FillPrice(price_ref, r.side)
        IN  [state |-> Fill(s79, ticker, r.side, qty, fill_price, exp_cost),
             order_id |-> order_id, key |-> key,
             result |-> [status |-> "FILLED", ticker |-> ticker, side |-> r.side,
                         filled_quantity |-> qty, avg_fill_price |-> fill_price,
                         client_order_id |-> order_id]]

SetOms(s) ==
    /\ cash' = s.cash
    /\ positions' = s.positions
    /\ total_value' = s.total_value
    /\ idempotency_registry' = s.idempotency_registry
    /\ expected_costs' = s.expected_costs
    /\ equity_curve' = s.equity_curve

InitOMS ==
    /\ cash = NewOMS.cash
    /\ positions = NewOMS.positions
    /\ total_value = NewOMS.total_value
    /\ idempotency_registry = NewOMS.idempotency_registry
    /\ expected_costs = NewOMS.expected_costs
    /\ equity_curve = NewOMS.equity_curve
    /\ now = 0
    /\ calls = <<>>

ThIdle == <<>>

\* one call of send_order by the only caller
SendOrder(r) ==
    LET e == SendOrderEffect(OmsState, r, now)
    IN
    /\ Len(calls) < MaxCalls
    /\ SetOms(e.state)
    /\ calls' = Append(calls,
           [account_id |-> r.book[1], ticker |-> r.book[2], side |-> r.side,
            qty |-> r.qty, limit_price |-> r.limit_price,
            client_order_id |-> r.client_order_id, at |-> now,
            order_id |-> e.order_id, key |-> e.key, result |-> e.result,
            before |-> OmsState, after |-> e.state])
    /\ UNCHANGED <<now, th, notOms>>

SendOrderAny == \E r \in Requests : SendOrder(r)

\* the clock moves on between calls
Tick ==
    /\ now < MaxClock
    /\ now' = now + 1
    /\ UNCHANGED <<cash, positions, total_value, idempotency_registry,
                   expected_costs, equity_curve, calls, th, notOms>>

OmsIdle == InitOMS /\ th = ThIdle
IdleButOms == BtIdle /\ EdbIdle /\ OptIdle /\ RiskIdle /\ CpcvIdle /\ KellyIdle /\ PboIdle
IdleButBt == OmsIdle /\ EdbIdle /\ OptIdle /\ RiskIdle /\ CpcvIdle /\ KellyIdle /\ PboIdle
IdleButEdb == OmsIdle /\ BtIdle /\ OptIdle /\ RiskIdle /\ CpcvIdle /\ KellyIdle /\ PboIdle
IdleButOpt == OmsIdle /\ BtIdle /\ EdbIdle /\ RiskIdle /\ CpcvIdle /\ KellyIdle /\ PboIdle
IdleButRisk == OmsIdle /\ BtIdle /\ EdbIdle /\ OptIdle /\ CpcvIdle /\ KellyIdle /\ PboIdle
IdleButCpcv == OmsIdle /\ BtIdle /\ EdbIdle /\ OptIdle /\ RiskIdle /\ KellyIdle /\ PboIdle
IdleButKelly == OmsIdle /\ BtIdle /\ EdbIdle /\ OptIdle /\ RiskIdle /\ CpcvIdle /\ PboIdle
IdleButPbo == OmsIdle /\ BtIdle /\ EdbIdle /\ OptIdle /\ RiskIdle /\ CpcvIdle /\ KellyIdle

Init == InitOMS /\ th = ThIdle /\ IdleButOms

Next == SendOrderAny \/ Tick

Spec == Init /\ [][Next]_vars

-----------------------------------------------------------------------------
(***************************************************************************)
(* Claims about the single-caller order manager (specification Spec).      *)
(***************************************************************************)
CallIds == 1..Len(calls)

\* the (account_id, ticker, client_order_id) of a call, with the
\* client_order_id the call ran with and returned
Triple(c) == <<c.account_id, c.ticker, c.order_id>>

Returned(c) == c.result.status # "RAISED"

\* C1: of the calls that return, the first call with a given (account_id,
\* ticker, client_order_id) triple returns FILLED and every later call with the
\* same triple returns IGNORED_DUPLICATE, so at most one call per triple is
\* FILLED.
C1_FirstFilledLaterIgnored ==
    \A i \in CallIds :
        Returned(calls[i]) =>
            calls[i].result.status =
                IF \E j \in 1..(i - 1) : Triple(calls[j]) = Triple(calls[i])
                THEN "IGNORED_DUPLICATE"
                ELSE "FILLED"

\* The part of C1 the code keeps: no two calls with the same triple are FILLED.
AtMostOneFillPerTriple ==
    \A i, j \in CallIds :
        (i < j /\ Triple(calls[i]) = Triple(calls[j]))
            => ~(calls[i].result.status = "FILLED" /\ calls[j].result.status = "FILLED")

\* C2: a send_order call that returns IGNORED_DUPLICATE leaves cash, positions,
\* total_value, equity_curve, expected_costs and idempotency_registry as they
\* were before the call, and of the calls made with one idempotency key only
\* the first can change the cash.
C2_DuplicateChangesNothing ==
    /\ \A i \in CallIds :
           calls[i].result.status = "IGNORED_DUPLICATE"
               => calls[i].after = calls[i].before
    /\ \A i, j \in CallIds :
           (i < j /\ calls[i].key = calls[j].key)
               => calls[j].after.cash = calls[j].before.cash
    /\ (calls # <<>> => calls[Len(calls)].after = OmsState)

\* a FILLED order was submitted again, and the cash is that after one fill
C2_Witness ==
    \E i, j \in CallIds :
        /\ i < j
        /\ Triple(calls[i]) = Triple(calls[j])
        /\ calls[i].result.status = "FILLED"
        /\ calls[j].result.status = "IGNORED_DUPLICATE"
        /\ calls[i].after.cash # calls[i].before.cash
        /\ cash = calls[i].after.cash

-----------------------------------------------------------------------------
(***************************************************************************)
(* Two callers inside send_order at once (specification SpecConc).         *)
(* send_order takes no lock, so the callers' statements interleave; every  *)
(* action below is one statement of oms.py, and the two read-modify-write  *)
(* statements (self.cash -= ..., position["qty"] += ...) are a load        *)
(* followed by a store.  A caller's position dict is either the dict       *)
(* already held by self.positions (shared) or a dict of its own, made by   *)
(* the default of .get() at line 87 and visible to nobody until line 91.   *)
(***************************************************************************)
Threads == {1, 2}

\* what the two callers submit: the same account, ticker and client token
ConcRequests ==
    [book : {<<AcctA, TickC>>}, side : Sides, qty : Qtys,
     limit_price : {<<>>}, client_order_id : {<<"k">>}]

\* an order filled before the two callers arrive; its client_order_id is
\* generated
EarlierRequest ==
    [book |-> <<AcctA, TickC>>, side |-> <<"B", "U", "Y">>, qty |-> <<100>>,
     limit_price |-> <<>>, client_order_id |-> NoneStr]

NoPosition == [qty |-> 0, price |-> FxInt(0), value |-> FxInt(0)]

IdleThread ==
    [pc |-> "idle", r |-> EarlierRequest, order_id |-> <<>>, key |-> <<>>,
     price_ref |-> FxInt(0), exp_cost |-> FxInt(0), fill_price |-> FxInt(0),
     cash_read |-> FxInt(0), shared |-> FALSE, own |-> NoPosition,
     qty_read |-> 0, status |-> "none"]

InitConc ==
    /\ \E s \in {NewOMS, SendOrderEffect(NewOMS, EarlierRequest, 0).state} :
           /\ cash = s.cash
           /\ positions = s.positions
           /\ total_value = s.total_value
           /\ idempotency_registry = s.idempotency_registry
           /\ expected_costs = s.expected_costs
           /\ equity_curve = s.equity_curve
    /\ now = 0
    /\ calls = <<>>
    /\ th = [t \in Threads |-> IdleThread]
    /\ IdleButOms

At(t, label) == th[t].pc = label

Goto(t, label) == [th EXCEPT ![t].pc = label]

\* the caller enters send_order
Enter(t) ==
    /\ At(t, "idle")
    /\ \E r \in ConcRequests : th' = [th EXCEPT ![t].pc = "L71", ![t].r = r]
    /\ UNCHANGED <<cash, positions, total_value, idempotency_registry,
                   expected_costs, equity_curve, now, calls, notOms>>

\* lines 71-72
L71(t) ==
    /\ At(t, "L71")
    /\ LET oid == OrderId(th[t].r.book[2], th[t].r.client_order_id, now)
       IN  th' = [th EXCEPT ![t].pc = "L73", ![t].order_id = oid,
                   ![t].key = IdempotencyKey(th[t].r.book[1], th[t].r.book[2], oid)]
    /\ UNCHANGED <<cash, positions, total_value, idempotency_registry,
                   expected_costs, equity_curve, now, calls, notOms>>

\* lines 73-74
L73(t) ==
    /\ At(t, "L73")
    /\ th' = IF Seen(idempotency_registry, th[t].key)
             THEN [th EXCEPT ![t].pc = "done", ![t].status = "IGNORED_DUPLICATE"]
             ELSE Goto(t, "L75")
    /\ UNCHANGED <<cash, positions, total_value, idempotency_registry,
                   expected_costs, equity_curve, now, calls, notOms>>

\* line 75
L75(t) ==
    /\ At(t, "L75")
    /\ idempotency_registry' = idempotency_registry \cup {th[t].key}
    /\ th' = Goto(t, "L77")
    /\ UNCHANGED <<cash, positions, total_value, expected_costs, equity_curve,
                   now, calls, notOms>>

\* line 77
L77(t) ==
    /\ At(t, "L77")
    /\ th' = [th EXCEPT ![t].pc = "L78",
                ![t].price_ref = PriceRef(positions, th[t].r.book[2],
                                          th[t].r.limit_price)]
    /\ UNCHANGED <<cash, positions, total_value, idempotency_registry,
                   expected_costs, equity_curve, now, calls, notOms>>

\* lines 78-79
L78(t) ==
    /\ At(t, "L78")
    /\ IF ~IsNumber(th[t].r.qty)
       THEN /\ th' = [th EXCEPT ![t].pc = "done", ![t].status = "RAISED"]
            /\ UNCHANGED expected_costs
       ELSE LET c == EstimateCost(th[t].r.qty[1], th[t].price_ref)
            IN  /\ th' = [th EXCEPT ![t].pc = "L81", ![t].exp_cost = c]
                /\ expected_costs' = Put(expected_costs, th[t].order_id, c)
    /\ UNCHANGED <<cash, positions, total_value, idempotency_registry,
                   equity_curve, now, calls, notOms>>

\* lines 81-84
L81(t) ==
    /\ At(t, "L81")
    /\ th' = IF ~IsStr(th[t].r.side)
             THEN [th EXCEPT ![t].pc = "done", ![t].status = "RAISED"]
             ELSE [th EXCEPT ![t].pc = "L86load",
                     ![t].fill_price = FillPrice(th[t].price_ref, th[t].r.side)]
    /\ UNCHANGED <<cash, positions, total_value, idempotency_registry,
                   expected_costs, equity_curve, now, calls, notOms>>

\* line 86, the load of self.cash
L86load(t) ==
    /\ At(t, "L86load")
    /\ th' = [th EXCEPT ![t].pc = "L86store", ![t].cash_read = cash]
    /\ UNCHANGED <<cash, positions, total_value, idempotency_registry,
                   expected_costs, equity_curve, now, calls, notOms>>

\* line 86, the store to self.cash
L86store(t) ==
    /\ At(t, "L86store")
    /\ cash' = CashAfter(th[t].cash_read, th[t].r.side, th[t].r.qty[1],
                         th[t].fill_price, th[t].exp_cost)
    /\ th' = Goto(t, "L87")
    /\ UNCHANGED <<positions, total_value, idempotency_registry,
                   expected_costs, equity_curve, now, calls, notOms>>

\* line 87
L87(t) ==
    /\ At(t, "L87")
    /\ th' = IF th[t].r.book[2] \in DOMAIN positions
             THEN [th EXCEPT ![t].pc = "L88load", ![t].shared = TRUE]
             ELSE [th EXCEPT ![t].pc = "L88load", ![t].shared = FALSE,
                     ![t].own = [qty |-> 0, price |-> th[t].fill_price,
                                 value |-> FxInt(0)]]
    /\ UNCHANGED <<cash, positions, total_value, idempotency_registry,
                   expected_costs, equity_curve, now, calls, notOms>>

\* the dict the caller's `position` names
PositionOf(t) == IF th[t].shared THEN positions[th[t].r.book[2]] ELSE th[t].own

\* a store to a key of that dict
StorePosition(t, label, p) ==
    IF th[t].shared
    THEN /\ positions' = [positions EXCEPT ![th[t].r.book[2]] = p]
         /\ th' = Goto(t, label)
    ELSE /\ th' = [th EXCEPT ![t].pc = label, ![t].own = p]
         /\ UNCHANGED positions

\* line 88, the load of position["qty"]
L88load(t) ==
    /\ At(t, "L88load")
    /\ th' = [th EXCEPT ![t].pc = "L88store", ![t].qty_read = PositionOf(t).qty]
    /\ UNCHANGED <<cash, positions, total_value, idempotency_registry,
                   expected_costs, equity_curve, now, calls, notOms>>

\* line 88, the store to position["qty"]
L88store(t) ==
    /\ At(t, "L88store")
    /\ StorePosition(t, "L89",
           [PositionOf(t) EXCEPT
               !.qty = th[t].qty_read + Sign(th[t].r.side) * th[t].r.qty[1]])
    /\ UNCHANGED <<cash, total_value, idempotency_registry, expected_costs,
                   equity_curve, now, calls, notOms>>

\* line 89
L89(t) ==
    /\ At(t, "L89")
    /\ StorePosition(t, "L90", [PositionOf(t) EXCEPT !.price = th[t].fill_price])
    /\ UNCHANGED <<cash, total_value, idempotency_registry, expected_costs,
                   equity_curve, now, calls, notOms>>

\* line 90
L90(t) ==
    /\ At(t, "L90")
    /\ StorePosition(t, "L91",
           [PositionOf(t) EXCEPT
               !.value = FxScale(PositionOf(t).qty, th[t].fill_price)])
    /\ UNCHANGED <<cash, total_value, idempotency_registry, expected_costs,
                   equity_curve, now, calls, notOms>>

\* line 91
L91(t) ==
    /\ At(t, "L91")
    /\ positions' = Put(positions, th[t].r.book[2], PositionOf(t))
    /\ th' = Goto(t, "L92")
    /\ UNCHANGED <<cash, total_value, idempotency_registry, expected_costs,
                   equity_curve, now, calls, notOms>>

\* line 92
L92(t) ==
    /\ At(t, "L92")
    /\ total_value' = PortfolioValue(cash, positions)
    /\ th' = Goto(t, "L93")
    /\ UNCHANGED <<cash, positions, idempotency_registry, expected_costs,
                   equity_curve, now, calls, notOms>>

\* lines 93-102
L93(t) ==
    /\ At(t, "L93")
    /\ equity_curve' = Append(equity_curve, total_value)
    /\ th' = [th EXCEPT ![t].pc = "done", ![t].status = "FILLED"]
    /\ UNCHANGED <<cash, positions, total_value, idempotency_registry,
                   expected_costs, now, calls, notOms>>

ThreadStep(t) ==
    \/ Enter(t) \/ L71(t) \/ L73(t) \/ L75(t) \/ L77(t) \/ L78(t) \/ L81(t)
    \/ L86load(t) \/ L86store(t) \/ L87(t) \/ L88load(t) \/ L88store(t)
    \/ L89(t) \/ L90(t) \/ L91(t) \/ L92(t) \/ L93(t)

NextConc == \E t \in Threads : ThreadStep(t)

SpecConc == InitConc /\ [][NextConc]_vars

\* the order manager the two callers found: an earlier order, if any, logged
\* its cost under its generated id
ConcStart ==
    IF OrderId(TickC, NoneStr, 0) \in DOMAIN expected_costs
    THEN SendOrderEffect(NewOMS, EarlierRequest, 0).state
    ELSE NewOMS

AllDone == \A t \in Threads : th[t] # IdleThread /\ th[t].pc = "done"

\* what the two calls do when one runs wholly before the other
Serial(first, second) ==
    LET e1 == SendOrderEffect(ConcStart, th[first].r, 0)
        e2 == SendOrderEffect(e1.state, th[second].r, 0)
    IN  [state |-> e2.state, first |-> e1.result.status,
         second |-> e2.result.status]

\* C3: two concurrent send_order calls with the same (account, ticker, client
\* token) exclude each other: when both are over, at most one is FILLED and
\* the cash, the positions and the rest of the order manager are what the two
\* calls leave when one runs wholly before the other (the cash is debited
\* once, no position update is lost).
C3_ConcurrentCallsExclude ==
    AllDone =>
        /\ Cardinality({t \in Threads : th[t].status = "FILLED"}) <= 1
        /\ \E a, b \in Threads :
               /\ a # b
               /\ OmsState = Serial(a, b).state
               /\ th[a].status = Serial(a, b).first
               /\ th[b].status = Serial(a, b).second

-----------------------------------------------------------------------------
\* Backtester.run (src/trading_system/backtester.py): the loop over the dates
\* of the panel, and the total return computed after it.  A pandas Series is
\* a function from its index labels to its values; a label is the tuple of
\* the pieces that line 60 joins with "_": <<"score", "AAPL">> is the column
\* score_AAPL, <<"AAPL">> the ticker AAPL.  A weight vector is a Series of
\* integer numerators over one positive denominator; returns are integers in
\* basis points, so that a day's return is a pair <<numerator, denominator>>
\* in basis points.  The 1e-8 added to a denominator only matters when the
\* denominator is 0: the quotient is then 0.

\* lines 66, 67 and 70
score_cols(row) == {c \in DOMAIN row : c[1] = "score"}
ret_cols(row) == {c \in DOMAIN row : c[1] = "ret_1d"}
tickers(row) == {<<c[2]>> : c \in score_cols(row)}

\* row[cols]
Sub(row, cols) == [c \in cols |-> row[c]]

RECURSIVE SumOver(_, _)
SumOver(f, keys) ==
    IF keys = {} THEN 0
    ELSE LET k == CHOOSE x \in keys : TRUE
         IN  f[k] + SumOver(f, keys \ {k})

AbsSum(w) == SumOver([t \in DOMAIN w.num |-> Abs(w.num[t])], DOMAIN w.num)

\* pd.Series(0.0, index=labels)
ZeroWeights(labels) == [num |-> [l \in labels |-> 0], den |-> 1]

\* the two fractions a/b and c/d are the same number
SameRatio(a, b, c, d) == a * d = c * b

\* scores_row.rank(pct=True) * 2 - 1, over its absolute sum: the rank of a
\* score is the average of the positions it ties for; the result keeps the
\* labels of scores_row
day_weights(scores_row) ==
    LET n == Cardinality(DOMAIN scores_row)
        less(t) == Cardinality({u \in DOMAIN scores_row : scores_row[u] < scores_row[t]})
        same(t) == Cardinality({u \in DOMAIN scores_row : scores_row[u] = scores_row[t]})
        ranks == [t \in DOMAIN scores_row |-> 2 * less(t) + same(t) + 1 - n]
        total == SumOver([t \in DOMAIN ranks |-> Abs(ranks[t])], DOMAIN ranks)
    IN  [num |-> ranks, den |-> total]

\* the rows handed to bayesian_kelly on date i of a panel of n dates:
\* panel.loc[:dt].tail(60) when it has 20 rows, else panel.head(20)
TailRows == 60
MinRows == 20
Max(a, b) == IF a >= b THEN a ELSE b
Min(a, b) == IF a <= b THEN a ELSE b
last_window(i) == Max(1, i - TailRows + 1) .. i
returns_for_kelly(i, n) ==
    IF Cardinality(last_window(i)) >= MinRows
    THEN last_window(i)
    ELSE 1 .. Min(MinRows, n)

\* RISK_LIMITS["max_position_pct"], 0.08, as the fraction 2/25
max_position_pct == [num |-> 2, den |-> 25]

\* a vector of NaN: 0/0 in every place
NaN(labels) == [num |-> [l \in labels |-> 0], den |-> 0]

\* (0.5 * base_w + 0.5 * kelly_w).fillna(0.0): the sum of two Series is
\* taken label by label over the union of their labels and is NaN at a label
\* that one of them lacks; fillna makes it 0 there
Blend(base_w, kelly_w) ==
    LET labels == DOMAIN base_w.num \cup DOMAIN kelly_w.num
        shared == DOMAIN base_w.num \cap DOMAIN kelly_w.num
    IN  IF kelly_w.den = 0 THEN ZeroWeights(labels)
        ELSE [num |-> [l \in labels |->
                           IF l \in shared
                           THEN base_w.num[l] * kelly_w.den + kelly_w.num[l] * base_w.den
                           ELSE 0],
              den |-> 2 * base_w.den * kelly_w.den]

\* combined / (combined.abs().sum() + 1e-8)
Normalise(w) ==
    IF AbsSum(w) = 0 THEN ZeroWeights(DOMAIN w.num)
    ELSE [num |-> w.num, den |-> AbsSum(w)]

\* combined.clip(-max_position_pct, max_position_pct)
Clip(w) ==
    LET lim == max_position_pct.num * w.den
    IN  [num |-> [l \in DOMAIN w.num |->
                      Max(-lim, Min(lim, w.num[l] * max_position_pct.den))],
         den |-> w.den * max_position_pct.den]

\* lines 93-95
CombinedUnblended(base_w, kelly_w) == base_w
Combined(base_w, kelly_w) == Clip(Normalise(Blend(base_w, kelly_w)))

\* the place of a label in a sorted index: the tickers in alphabetical
\* order, then the columns in the order of their tickers
TickerNo == [t \in {"AAPL", "MSFT", "NVDA"} |->
                IF t = "AAPL" THEN 0 ELSE IF t = "MSFT" THEN 1 ELSE 2]
LabelNo(l) ==
    IF Len(l) = 1 THEN TickerNo[l[1]]
    ELSE Cardinality(DOMAIN TickerNo) + TickerNo[l[2]]

\* series.values: the values in the order of the index
Values(series) ==
    LET place(l) == 1 + Cardinality({k \in DOMAIN series : LabelNo(k) < LabelNo(l)})
    IN  [i \in 1..Cardinality(DOMAIN series) |->
            series[CHOOSE l \in DOMAIN series : place(l) = i]]

\* numpy multiplies two arrays of equal length, or stretches an array of one
\* element to the length of the other; any other pair raises ValueError
Broadcasts(a, b) == Len(a) = Len(b) \/ Len(a) = 1 \/ Len(b) = 1

\* (weights.values * row[ret_cols].values).sum(), in basis points
Dot(w, ret) ==
    LET a == Values(w.num)
        b == Values(ret)
        n == Max(Len(a), Len(b))
        at(s, k) == IF Len(s) = 1 THEN s[1] ELSE s[k]
    IN  <<SumOver([k \in 1..n |-> at(a, k) * at(b, k)], 1..n), w.den>>

\* (combined - prev_weights).abs().sum(): the difference is NaN at a label
\* that one of the two lacks, and sum() skips NaN
Turnover(w, prev) ==
    LET shared == DOMAIN w.num \cap DOMAIN prev.num
    IN  <<SumOver([l \in shared |->
                       Abs(w.num[l] * prev.den - prev.num[l] * w.den)], shared),
          w.den * prev.den>>

RECURSIVE Gcd(_, _)
Gcd(a, b) == IF b = 0 THEN a ELSE Gcd(b, a % b)

\* the product of two fractions, in lowest terms
Times(x, y) ==
    LET g == Gcd(Abs(x[1] * y[1]), Abs(x[2] * y[2]))
    IN  <<(x[1] * y[1]) \div g, (x[2] * y[2]) \div g>>

\* np.cumprod(1 + returns)[hi] / np.cumprod(1 + returns)[lo - 1]: the
\* product of 1 + r over the dates lo..hi, a return being in basis points
RECURSIVE Growth(_, _, _)
Growth(returns, lo, hi) ==
    IF lo > hi THEN <<1, 1>>
    ELSE IF lo = hi
    THEN Times(<<returns[lo][2] * 10000 + returns[lo][1], returns[lo][2] * 10000>>,
               <<1, 1>>)
    ELSE LET mid == (lo + hi) \div 2
         IN  Times(Growth(returns, lo, mid), Growth(returns, mid + 1, hi))

\* line 114: equity.iloc[-1] / equity.iloc[0] - 1.0 if len(equity) > 1
\* else 0.0, equity being initial_capital * cumprod(1 + returns_hist)
total_return(returns) ==
    IF Len(returns) > 1
    THEN LET g == Growth(returns, 2, Len(returns)) IN <<g[1] - g[2], g[2]>>
    ELSE <<0, 1>>

\* the panels of the runs: one ticker or three, scores that rotate over the
\* tickers or tie, returns that change sign with the date
Universes == {{"AAPL"}, {"AAPL", "MSFT", "NVDA"}}
ScoreKinds == {"rotating", "tied"}
PanelRow(kind, i, universe) ==
    [c \in {"score", "ret_1d"} \X universe |->
        IF c[1] = "score"
        THEN (IF kind = "tied" THEN 0 ELSE (i + TickerNo[c[2]]) % 3)
        ELSE ((7 * i + 13 * TickerNo[c[2]]) % 41) - 20]
PanelLengths == {0, 3, 25, MaxDates}

\* what bayesian_kelly returns on a date, a Series over the tickers: its
\* bootstrap estimate is not computed here, its result is one of these
KellyKinds == {"zero", "nan", "tilted"}
KellyOf(kind, i, labels) ==
    IF kind = "nan" THEN NaN(labels)
    ELSE IF kind = "zero" THEN ZeroWeights(labels)
    ELSE [num |-> [l \in labels |-> ((i + 2 * TickerNo[l[1]]) % 5) - 2], den |-> 100]

InitBT ==
    /\ IdleButBt
    /\ \E n \in PanelLengths, universe \in Universes, sk \in ScoreKinds,
          kk \in KellyKinds :
           /\ panel = [i \in 1..n |-> PanelRow(sk, i, universe)]
           /\ kelly_out = [i \in 1..n |-> KellyOf(kk, i, {<<t>> : t \in universe})]
           /\ prev_weights = ZeroWeights({<<t>> : t \in universe})
    /\ bt_i = 0
    /\ weights_hist = <<>>
    /\ returns_hist = <<>>
    /\ turnover_hist = <<>>
    /\ kelly_rows = <<>>
    /\ bt_raised = FALSE
    /\ bt_metrics = <<>>

\* one pass of the loop, lines 79-104: bayesian_kelly is called, and the
\* pass ends at line 97 with a ValueError when the arrays do not multiply
RunDate ==
    /\ bt_i < Len(panel)
    /\ ~bt_raised
    /\ LET i == bt_i + 1
           row == panel[i]
           base_w == day_weights(Sub(row, score_cols(row)))
           combined == Combined(base_w, kelly_out[i])
           rets == Sub(row, ret_cols(row))
       IN  /\ kelly_rows' = Append(kelly_rows, returns_for_kelly(i, Len(panel)))
           /\ IF Broadcasts(Values(combined.num), Values(rets))
              THEN /\ returns_hist' = Append(returns_hist, Dot(combined, rets))
                   /\ weights_hist' = Append(weights_hist, combined)
                   /\ turnover_hist' =
                          Append(turnover_hist, Turnover(combined, prev_weights))
                   /\ prev_weights' = combined
                   /\ bt_i' = i
                   /\ UNCHANGED bt_raised
              ELSE /\ bt_raised' = TRUE
                   /\ UNCHANGED <<returns_hist, weights_hist, turnover_hist,
                                  prev_weights, bt_i>>
    /\ UNCHANGED <<panel, kelly_out, bt_metrics, notBt>>

\* lines 106-122, after the loop: the metrics
Metrics ==
    /\ bt_i = Len(panel)
    /\ ~bt_raised
    /\ bt_metrics = <<>>
    /\ bt_metrics' = <<[total_return |-> total_return(returns_hist)]>>
    /\ UNCHANGED <<panel, kelly_out, bt_i, prev_weights, weights_hist, returns_hist,
                   turnover_hist, kelly_rows, bt_raised, notBt>>

NextBT == RunDate \/ Metrics

SpecBT == InitBT /\ [][NextBT]_vars

\* the weights in force before date i: those of date i-1, none on the first
WeightsBefore(i) ==
    IF i = 1 THEN ZeroWeights(tickers(panel[1])) ELSE weights_hist[i - 1]

\* C4: every pass of the loop records a return for its date, and it is the
\* product of the weights decided on the previous date (none before the
\* first) with that date's returns.
C4_DayReturnUsesPreviousWeights ==
    /\ ~bt_raised
    /\ \A i \in 1..Len(returns_hist) :
           LET row == panel[i]
               want == Dot(WeightsBefore(i), Sub(row, ret_cols(row)))
           IN  SameRatio(returns_hist[i][1], returns_hist[i][2], want[1], want[2])

\* C5: the rows handed to the Kelly estimate on date t are rows of dates
\* strictly before t.
C5_KellyRowsStrictlyBefore ==
    \A i \in 1..Len(kelly_rows) : \A j \in kelly_rows[i] : j < i

-----
\* EventDrivenBacktester.run_backtest
\* (src/sistema-de-trading/sistema_de_trading/backtesting/event_backtester.py):
\* one step per date of the price table.  Weights are integers in one unit;
\* a portfolio return and a commission rate are pairs <<numerator,
\* denominator>> in that unit.  The capital is the list of the steps applied
\* to initial_capital, each step [ret, fee] standing for
\* capital * (1 + ret) - fee * capital.

columns == {"AAPL", "MSFT"}

RECURSIVE ProdOver(_, _)
ProdOver(f, keys) ==
    IF keys = {} THEN 1
    ELSE LET k == CHOOSE x \in keys : TRUE
         IN  f[k] * ProdOver(f, keys \ {k})

comision_bp == 1
BpDivisor == 10000

\* target.reindex(prices.columns, fill_value=0.0)
Reindex(series) == [t \in columns |-> IF t \in DOMAIN series THEN series[t] ELSE 0]

\* date_to_weights.get(date_str): <<>> when the date has no signals
TargetOf(date_to_weights, i, current) ==
    IF date_to_weights[i] = <<>> THEN current ELSE Reindex(date_to_weights[i][1])

\* np.nansum(weights * returns.iloc[i]), returns being prices.pct_change()
PortfolioReturn(weights, before, today) ==
    <<SumOver([t \in columns |->
                   weights[t] * (today[t] - before[t])
                       * ProdOver(before, columns \ {t})], columns),
      ProdOver(before, columns)>>

\* the weights the day's return is computed from
ReturnWeightsTarget(current, target) == target
ReturnWeights(current, target) == current

Delta(target, current) == [t \in columns |-> target[t] - current[t]]

\* delta.abs().sum() * comision_bp / 10_000, the part of the capital charged
CommissionShare(delta) ==
    <<SumOver([t \in columns |-> Abs(delta[t])], columns) * comision_bp, BpDivisor>>

\* the TradeRecords of a date: one for each ticker whose weight changes
TradesOfEveryTicker(i, current, target, capital_after) ==
    LET delta == Delta(target, current)
    IN  {[date |-> i, ticker |-> t, weight_before |-> current[t],
          weight_after |-> target[t], trade_size |-> delta[t],
          commission_cost |-> [rate |-> <<Abs(delta[t]) * comision_bp, BpDivisor>>,
                               capital |-> capital_after]] : t \in columns}
TradesOf(i, current, target, capital_after) ==
    LET delta == Delta(target, current)
    IN  {[date |-> i, ticker |-> t, weight_before |-> current[t],
          weight_after |-> target[t], trade_size |-> delta[t],
          commission_cost |-> [rate |-> <<Abs(delta[t]) * comision_bp, BpDivisor>>,
                               capital |-> capital_after]] :
            t \in {u \in columns : delta[u] # 0}}

\* lines 100-109: the capital after date i, the first date leaving it as it is
CapitalAfterCharged(i, cap, step) ==
    IF i > 1 THEN Append(cap, step) ELSE Append(cap, [ret |-> <<0, 1>>, fee |-> <<1, 1>>])
CapitalAfter(i, cap, step) == IF i > 1 THEN Append(cap, step) ELSE cap

PriceRows == {[t \in columns |-> IF t = "AAPL" THEN 10 ELSE 20],
              [t \in columns |-> IF t = "AAPL" THEN 11 ELSE 18]}
SignalRows == {<<>>,
               <<"AAPL" :> 50>>,
               <<("AAPL" :> 50) @@ ("MSFT" :> -50) @@ ("TSLA" :> 10)>>}

InitEDB ==
    /\ IdleButEdb
    /\ \E n \in 1..MaxEdbDates :
           /\ prices \in [1..n -> PriceRows]
           /\ signals \in [1..n -> SignalRows]
    /\ edb_i = 0
    /\ capital = <<>>
    /\ current_weights = [t \in columns |-> 0]
    /\ edb_equity_curve = <<>>
    /\ trades = {}
    /\ port_returns = <<>>
    /\ weights_after = <<>>

\* one pass of the loop, lines 90-126
RunBacktestDate ==
    /\ edb_i < Len(prices)
    /\ LET i == edb_i + 1
           target == TargetOf(signals, i, current_weights)
           portfolio_return ==
               PortfolioReturn(ReturnWeights(current_weights, target),
                               prices[i - 1], prices[i])
           step == [ret |-> portfolio_return,
                    fee |-> CommissionShare(Delta(target, current_weights))]
           capital_after == CapitalAfter(i, capital, step)
       IN  /\ capital' = capital_after
           /\ port_returns' = IF i > 1 THEN Append(port_returns, portfolio_return)
                              ELSE port_returns
           /\ trades' = IF i > 1
                        THEN trades \cup TradesOf(i, current_weights, target, capital_after)
                        ELSE trades
           /\ current_weights' = target
           /\ weights_after' = Append(weights_after, target)
           /\ edb_equity_curve' = Append(edb_equity_curve, capital_after)
           /\ edb_i' = i
    /\ UNCHANGED <<prices, signals, notEdb>>

NextEDB == RunBacktestDate

SpecEDB == InitEDB /\ [][NextEDB]_vars

\* C6: on every date after the first, the return applied to the capital is
\* the product of the weights current after the previous date with the price
\* change from the previous date to this one, whatever the targets of this
\* date are.
C6_ReturnUsesWeightsOfPreviousDate ==
    \A i \in 2..edb_i :
        LET want == PortfolioReturn(weights_after[i - 1], prices[i - 1], prices[i])
        IN  /\ port_returns[i - 1] = want
            /\ capital[i - 1].ret = want
            /\ edb_equity_curve[i] = SubSeq(capital, 1, i - 1)

\* a date after the first whose targets change the weights and whose return
\* is not zero
C6_Witness ==
    \E i \in 2..edb_i :
        /\ weights_after[i] # weights_after[i - 1]
        /\ port_returns[i - 1][1] # 0
        /\ PortfolioReturn(weights_after[i], prices[i - 1], prices[i]) # port_returns[i - 1]

-----------------------------------------------------------------------------
\* PortfolioOptimizer.optimize_weights and _fallback_weights
\* (src/sistema-de-trading/sistema_de_trading/optimization/portfolio_optimizer.py).
\* The limits of Config and the weights are in hundredths: a weight vector
\* [num, den] holds the weights num[t] / den hundredths.  What the solvers
\* do is not computed: a solver raises, or ends with one of cvxpy's statuses
\* and, on the optimal ones, with no vector or with any vector that meets the
\* constraints of lines 169-186.

apalancamiento_bruto_max == 200
exposicion_neta_target == 0
exposicion_neta_tolerancia == 20
peso_max_por_accion == 3
peso_max_sector == 30
peso_max_tech == 35

LowerChar(c) ==
    IF \E i \in 1..Len(UpperCase) : UpperCase[i] = c
    THEN LowerCase[CHOOSE i \in 1..Len(UpperCase) : UpperCase[i] = c]
    ELSE c

\* str.lower()
Lower(s) == [i \in 1..Len(s) |-> LowerChar(s[i])]

Unknown == <<"U","n","k","n","o","w","n">>

\* sectors.loc[ticker] if ticker in sectors.index else "Unknown"
SectorOf(sectors, ticker) ==
    IF ticker \in DOMAIN sectors THEN sectors[ticker] ELSE Unknown

\* the limit of a sector group, line 184
SectorLimit(sec) ==
    IF StartsWith(Lower(sec), <<"t","e","c","h">>) THEN peso_max_tech
    ELSE peso_max_sector

\* the constraints given to cvxpy, lines 169-186, on a vector in hundredths
Feasible(w, sectors) ==
    LET T == DOMAIN w
        net == SumOver(w, T)
        groups == {SectorOf(sectors, t) : t \in T}
        idxs(sec) == {t \in T : SectorOf(sectors, t) = sec}
    IN  /\ SumOver([t \in T |-> Abs(w[t])], T) <= apalancamiento_bruto_max
        /\ net >= exposicion_neta_target - exposicion_neta_tolerancia
        /\ net <= exposicion_neta_target + exposicion_neta_tolerancia
        /\ \A t \in T : w[t] <= peso_max_por_accion /\ w[t] >= -peso_max_por_accion
        /\ \A sec \in groups :
               SectorLimit(sec) > 0 =>
                   SumOver([t \in idxs(sec) |-> Abs(w[t])], idxs(sec)) <= SectorLimit(sec)

RECURSIVE GcdOver(_, _, _)
GcdOver(f, keys, g) ==
    IF keys = {} THEN g
    ELSE LET k == CHOOSE x \in keys : TRUE
         IN  GcdOver(f, keys \ {k}, Gcd(g, Abs(f[k])))

\* the same weights as fractions in lowest terms
Lowest(w) ==
    LET g == GcdOver(w.num, DOMAIN w.num, w.den)
    IN  [num |-> [t \in DOMAIN w.num |-> w.num[t] \div g], den |-> w.den \div g]

\* weights * (apalancamiento_bruto_max / leverage) when the leverage is
\* positive, lines 210-212 and 253-255
RescaleTimesLimit(w) ==
    Lowest([num |-> [t \in DOMAIN w.num |-> w.num[t] * apalancamiento_bruto_max],
            den |-> w.den * 100])
Rescale(w) ==
    IF AbsSum(w) > 0
    THEN Lowest([num |-> [t \in DOMAIN w.num |-> w.num[t] * apalancamiento_bruto_max],
                 den |-> AbsSum(w)])
    ELSE w

\* _fallback_weights, lines 238-256; the 1e-8 of lines 249-250 only matters
\* for a side whose sum is 0, whose weights are then 0
fallback_weights(expected_returns) ==
    LET T == DOMAIN expected_returns
        pos == [t \in T |-> Max(expected_returns[t], 0)]
        neg == [t \in T |-> Max(-expected_returns[t], 0)]
        P == SumOver(pos, T)
        N == SumOver(neg, T)
        weights ==
            IF T = {}
            THEN [num |-> expected_returns, den |-> 1]
            ELSE IF P + N = 0
            THEN [num |-> [t \in T |-> 100], den |-> Cardinality(T)]
            ELSE [num |-> [t \in T |-> 100 * (pos[t] * Max(N, 1) - neg[t] * Max(P, 1))],
                  den |-> Max(P, 1) * Max(N, 1)]
    IN  Rescale(weights)

\* np.dot(weights.values, expected_returns.values), in hundredths
ExpRet(w, expected_returns) ==
    <<SumOver([t \in DOMAIN w.num |-> w.num[t] * expected_returns[t]], DOMAIN w.num),
      w.den>>

\* weights.values.T @ covariance_matrix.values @ weights.values
Risk(w, cov) ==
    LET T == DOMAIN w.num
    IN  <<SumOver([t \in T |->
                       SumOver([u \in T |-> w.num[t] * cov[t][u] * w.num[u]], T)], T),
          w.den * w.den>>

OptimalStatuses == {"optimal", "optimal_inaccurate"}

Result(w, in, objective, status) ==
    [weights |-> w, expected_return |-> ExpRet(w, in.expected_returns),
     risk |-> Risk(w, in.covariance_matrix),
     objective_value |-> objective, status |-> status]

\* what the two solve calls of lines 189-195 leave: the status of the problem
\* and w.value, <<>> for None
ProblemAfter(sol) ==
    IF sol.ecos = "raises" /\ sol.scs = "raises"
    THEN [status |-> "error", value |-> <<>>]
    ELSE [status |-> sol.status, value |-> sol.value]

\* optimize_weights: the returned OptimizationResult, or the exception raised
optimize_weights_unchecked(in, sol) ==
    LET expected_returns == in.expected_returns
        problem == ProblemAfter(sol)
        raw_w == [num |-> problem.value[1], den |-> 1]
    IN  IF ~in.cvxpy
        THEN Result(fallback_weights(expected_returns), in, "nan", "cvxpy_unavailable")
        ELSE IF problem.status \notin OptimalStatuses
        THEN Result(fallback_weights(expected_returns), in, "nan", problem.status)
        ELSE IF problem.value = <<>>
        THEN Result(fallback_weights(expected_returns), in, "nan", problem.status)
        ELSE Result(Rescale(raw_w), in, "problem.value", problem.status)
optimize_weights(in, sol) ==
    LET expected_returns == in.expected_returns
        problem == ProblemAfter(sol)
        raw_w == [num |-> problem.value[1], den |-> 1]
    IN  IF DOMAIN expected_returns = {}
        THEN [raised |-> "ValueError"]
        ELSE IF ~in.cvxpy
        THEN Result(fallback_weights(expected_returns), in, "nan", "cvxpy_unavailable")
        ELSE IF problem.status \notin OptimalStatuses
        THEN Result(fallback_weights(expected_returns), in, "nan", problem.status)
        ELSE IF problem.value = <<>>
        THEN Result(fallback_weights(expected_returns), in, "nan", problem.status)
        ELSE Result(Rescale(raw_w), in, "problem.value", problem.status)

\* the inputs of the calls
OptUniverse == {"AAPL", "JPM", "XOM"}
Sectors == ("AAPL" :> <<"T","e","c","h","n","o","l","o","g","y">>)
               @@ ("JPM" :> <<"F","i","n","a","n","c","i","a","l","s">>)
ReturnValues == {-1, 0, 2}
CovOf(T) == [t \in T |-> [u \in T |-> IF t = u THEN 4 ELSE 1]]
GridValues == {-peso_max_por_accion, -1, 0, peso_max_por_accion}
OptInputs ==
    UNION {[expected_returns : [T -> ReturnValues],
            covariance_matrix : {CovOf(T)},
            sectors : {Sectors},
            cvxpy : BOOLEAN] : T \in SUBSET OptUniverse}

\* the outcomes of the solvers on a problem over the tickers T
SolverStatuses == OptimalStatuses \cup {"infeasible", "unbounded"}
SolverOutcomes(T, sectors) ==
    LET ended == {[status |-> s, value |-> <<>>] : s \in SolverStatuses}
                 \cup {[status |-> s, value |-> <<w>>] :
                          s \in OptimalStatuses,
                          w \in {v \in [T -> GridValues] : Feasible(v, sectors)}}
    IN  {[ecos |-> "returns", scs |-> "unused", status |-> e.status, value |-> e.value] :
             e \in ended}
        \cup {[ecos |-> "raises", scs |-> "returns", status |-> e.status, value |-> e.value] :
                 e \in ended}
        \cup {[ecos |-> "raises", scs |-> "raises", status |-> "unset", value |-> <<>>]}

NoSolver == [ecos |-> "unused", scs |-> "unused", status |-> "unset", value |-> <<>>]

InitOpt ==
    /\ IdleButOpt
    /\ opt_in \in OptInputs
    /\ opt_solver = NoSolver
    /\ opt_out = <<>>

\* one call of optimize_weights on the drawn input
OptimizeWeights ==
    /\ opt_out = <<>>
    /\ \E sol \in IF opt_in.cvxpy /\ DOMAIN opt_in.expected_returns # {}
                  THEN SolverOutcomes(DOMAIN opt_in.expected_returns, opt_in.sectors)
                  ELSE {NoSolver} :
           /\ opt_solver' = sol
           /\ opt_out' = <<optimize_weights(opt_in, sol)>>
    /\ UNCHANGED <<opt_in, notOpt>>

NextOpt == OptimizeWeights

SpecOpt == InitOpt /\ [][NextOpt]_vars

\* the call returned an OptimizationResult
HasResult(out) == out # <<>> /\ "weights" \in DOMAIN out[1]

\* C7: the weights of a returned result have a gross leverage of at most
\* apalancamiento_bruto_max, on every return path.
C7_GrossLeverageBounded ==
    HasResult(opt_out) =>
        AbsSum(opt_out[1].weights)
            <= apalancamiento_bruto_max * opt_out[1].weights.den

\* the solver ended optimal with a vector of leverage below the limit, which
\* the call scaled up
C7_Witness ==
    /\ HasResult(opt_out)
    /\ opt_out[1].objective_value = "problem.value"
    /\ opt_solver.value # <<>>
    /\ LET T == DOMAIN opt_solver.value[1]
           lev == SumOver([t \in T |-> Abs(opt_solver.value[1][t])], T)
       IN  lev > 0 /\ lev < apalancamiento_bruto_max

\* C8: with cvxpy and a non-empty universe the call never raises, and when
\* the final status is not an optimal one or the solution vector is missing
\* the result is built from _fallback_weights, its status is no optimal
\* status, its objective value is NaN and its gross leverage is
\* apalancamiento_bruto_max.
C8_SolverFailureFallsBack ==
    (opt_out # <<>> /\ opt_in.cvxpy /\ DOMAIN opt_in.expected_returns # {}) =>
        /\ HasResult(opt_out)
        /\ (\/ ProblemAfter(opt_solver).status \notin OptimalStatuses
            \/ ProblemAfter(opt_solver).value = <<>>) =>
               /\ opt_out[1].weights = fallback_weights(opt_in.expected_returns)
               /\ opt_out[1].status \notin OptimalStatuses
               /\ opt_out[1].objective_value = "nan"
               /\ AbsSum(opt_out[1].weights)
                      = apalancamiento_bruto_max * opt_out[1].weights.den

\* C9: on the solver-optimal path every returned weight is within
\* peso_max_por_accion in absolute value.
C9_PerAssetBoundAfterRescale ==
    (HasResult(opt_out) /\ opt_out[1].objective_value = "problem.value") =>
        \A t \in DOMAIN opt_out[1].weights.num :
            Abs(opt_out[1].weights.num[t])
                <= peso_max_por_accion * opt_out[1].weights.den

-----------------------------------------------------------------------------
\* check_risk_limits_with_cooldown and expected_shortfall
\* (src/trading_system/risk_management.py).  The P&L bars, the position
\* values, the prices and the ADVs are integers; a missing key of a dict is a
\* missing field of the record.

kill_switch_sigma == 3
max_gross_exposure_pct == 2
drawdown_window_bars == 100
MinBars == 10

\* series.tail(n)
TailOf(series, n) ==
    IF Len(series) <= n THEN series
    ELSE SubSeq(series, Len(series) - n + 1, Len(series))

\* the k-th smallest value of a series, k from 1
KthSmallest(series, k) ==
    CHOOSE v \in {series[i] : i \in DOMAIN series} :
        /\ Cardinality({i \in DOMAIN series : series[i] < v}) < k
        /\ k <= Cardinality({i \in DOMAIN series : series[i] <= v})

\* 20 * np.quantile(series, 0.05), by linear interpolation between the two
\* values around position (n - 1) / 20
Cutoff20(series) ==
    LET n == Len(series)
        lo == (n - 1) \div 20
        frac == (n - 1) % 20
        below == KthSmallest(series, lo + 1)
        above == KthSmallest(series, Min(lo + 2, n))
    IN  20 * below + frac * (above - below)

\* the sum of the values of a series from place lo to place hi
RECURSIVE SumRange(_, _, _)
SumRange(series, lo, hi) ==
    IF lo > hi THEN 0
    ELSE IF lo = hi THEN series[lo]
    ELSE LET mid == (lo + hi) \div 2
         IN  SumRange(series, lo, mid) + SumRange(series, mid + 1, hi)

\* expected_shortfall(series, q=0.95): the mean of the values at or below
\* the cutoff, as <<sum, count>>
expected_shortfall(series) ==
    IF series = <<>> THEN <<0, 1>>
    ELSE LET cutoff == Cutoff20(series)
             tail == {i \in DOMAIN series : 20 * series[i] <= cutoff}
         IN  IF tail = {} THEN <<0, 1>>
             ELSE <<SumRange([i \in DOMAIN series |->
                                 IF i \in tail THEN series[i] ELSE 0],
                             1, Len(series)),
                    Cardinality(tail)>>

\* lines 103-108: dd > kill_switch_sigma * abs(es95) on at least 10 bars
KillSwitch(pnl_intraday) ==
    LET recent == TailOf(pnl_intraday, drawdown_window_bars)
        es95 == expected_shortfall(recent)
        dd == Abs(SumRange(recent, 1, Len(recent)))
    IN  /\ Len(recent) >= MinBars
        /\ dd * es95[2] > kill_switch_sigma * Abs(es95[1])

\* dict.get(key, default)
Get(d, key, default) == IF key \in DOMAIN d THEN d[key] ELSE default

\* lines 114-117: gross > max_gross_exposure_pct, the total value being
\* max(total_value, 1e-8)
GrossBreachAtCeiling(portfolio) ==
    LET items == portfolio.positions
        total == SumOver([i \in DOMAIN items |-> Abs(Get(items[i][2], "value", 0))],
                         DOMAIN items)
        value_of_all == Get(portfolio, "total_value", 1)
    IN  IF value_of_all > 0 THEN total >= max_gross_exposure_pct * value_of_all
        ELSE total >= 0
GrossBreach(portfolio) ==
    LET items == portfolio.positions
        total == SumOver([i \in DOMAIN items |-> Abs(Get(items[i][2], "value", 0))],
                         DOMAIN items)
        value_of_all == Get(portfolio, "total_value", 1)
    IN  IF value_of_all > 0 THEN total > max_gross_exposure_pct * value_of_all
        ELSE total > 0

\* lines 125-128: participation > max_participation_adv (0.05, 1/20), the
\* price being max(1e-6, price) and the ADV max(1.0, adv)
ParticipationBreach(pos, adv_of_ticker) ==
    LET price == Get(pos, "price", 1)
        adv == Max(1, adv_of_ticker)
        value == Abs(Get(pos, "value", 0))
    IN  IF price > 0 THEN 20 * value > adv * price
        ELSE adv \div 20000000 < value

\* the positions, in the order of the dict, that breach the participation
\* limit; get_adv is <<>> for None
Breaches(portfolio, get_adv) ==
    IF get_adv = <<>> THEN {}
    ELSE {i \in DOMAIN portfolio.positions :
              ParticipationBreach(portfolio.positions[i][2],
                                  get_adv[1][portfolio.positions[i][1]])}

FirstOf(S) == CHOOSE i \in S : \A j \in S : i <= j

\* a check that remembers a verdict other than PASSED
check_in_cooldown(portfolio, pnl_intraday, get_adv) ==
    IF risk_out # <<>> /\ risk_out[Len(risk_out)].status # "PASSED"
    THEN [status |-> "REJECTED", reason |-> "cooldown"]
    ELSE IF KillSwitch(pnl_intraday)
    THEN [status |-> "KILL_SWITCH", reason |-> "DD"]
    ELSE IF GrossBreach(portfolio)
    THEN [status |-> "REJECTED", reason |-> "Gross"]
    ELSE IF Breaches(portfolio, get_adv) # {}
    THEN [status |-> "REJECTED",
          reason |-> portfolio.positions[FirstOf(Breaches(portfolio, get_adv))][1]]
    ELSE [status |-> "PASSED", reason |-> ""]

\* check_risk_limits_with_cooldown: the status and what the reason names
check_gross_first(portfolio, pnl_intraday, get_adv) ==
    IF GrossBreach(portfolio)
    THEN [status |-> "REJECTED", reason |-> "Gross"]
    ELSE IF KillSwitch(pnl_intraday)
    THEN [status |-> "KILL_SWITCH", reason |-> "DD"]
    ELSE IF Breaches(portfolio, get_adv) # {}
    THEN [status |-> "REJECTED",
          reason |-> portfolio.positions[FirstOf(Breaches(portfolio, get_adv))][1]]
    ELSE [status |-> "PASSED", reason |-> ""]
check_risk_limits_with_cooldown(portfolio, pnl_intraday, get_adv) ==
    IF KillSwitch(pnl_intraday)
    THEN [status |-> "KILL_SWITCH", reason |-> "DD"]
    ELSE IF GrossBreach(portfolio)
    THEN [status |-> "REJECTED", reason |-> "Gross"]
    ELSE IF Breaches(portfolio, get_adv) # {}
    THEN [status |-> "REJECTED",
          reason |-> portfolio.positions[FirstOf(Breaches(portfolio, get_adv))][1]]
    ELSE [status |-> "PASSED", reason |-> ""]

\* the inputs of the calls
PnlKinds == {"flat", "losses", "gains", "mixed", "early loss"}
PnlOf(kind, n) ==
    [i \in 1..n |->
        IF kind = "flat" THEN 0
        ELSE IF kind = "losses" THEN -1
        ELSE IF kind = "gains" THEN 1
        ELSE IF kind = "mixed" THEN (IF i % 2 = 0 THEN 3 ELSE -3)
        ELSE (IF i = 1 THEN -100 ELSE 0)]
PnlLengths == {0, 9, 10, 21, MaxBars}
Portfolios ==
    {[positions |-> <<>>, total_value |-> 1000],
     [positions |-> <<<<"AAPL", [value |-> 500, price |-> 10]>>>>, total_value |-> 1000],
     [positions |-> <<<<"AAPL", [value |-> 2000, price |-> 10]>>>>, total_value |-> 1000],
     [positions |-> <<<<"AAPL", [value |-> 1500, price |-> 10]>>,
                      <<"MSFT", [value |-> -1000, price |-> 0]>>>>, total_value |-> 1000],
     [positions |-> <<<<"MSFT", [value |-> 3]>>, <<"AAPL", [price |-> 10]>>>>],
     [positions |-> <<<<"MSFT", [value |-> 100, price |-> 0]>>>>, total_value |-> 1000],
     [positions |-> <<<<"AAPL", [value |-> 1, price |-> 10]>>>>, total_value |-> 0]}
AdvTables == {<<>>,
              <<[t \in {"AAPL", "MSFT"} |-> IF t = "AAPL" THEN 100 ELSE 0]>>,
              <<[t \in {"AAPL", "MSFT"} |-> 100000]>>}

InitRisk ==
    /\ IdleButRisk
    /\ \E kind \in PnlKinds, n \in PnlLengths, portfolio \in Portfolios,
          get_adv \in AdvTables :
           risk_in = [portfolio |-> portfolio, pnl_intraday |-> PnlOf(kind, n),
                      get_adv |-> get_adv]
    /\ risk_out = <<>>

\* one call of check_risk_limits_with_cooldown on the drawn input; the call
\* reads its arguments and RISK_LIMITS and writes to none of them
CheckRiskLimits ==
    /\ Len(risk_out) < MaxChecks
    /\ risk_out' = Append(risk_out,
                          check_risk_limits_with_cooldown(
                              risk_in.portfolio, risk_in.pnl_intraday, risk_in.get_adv))
    /\ UNCHANGED <<risk_in, notRisk>>

NextRisk == CheckRiskLimits

SpecRisk == InitRisk /\ [][NextRisk]_vars

\* C10: the verdict is that of the first violated rule in the order kill
\* switch, gross exposure, liquidity: KILL_SWITCH whenever the kill-switch
\* condition holds; otherwise the gross-exposure REJECTED whenever the gross
\* exposure is breached; otherwise the REJECTED of the first position that
\* breaches the participation limit; PASSED only when no rule is violated.
C10_FirstViolatedRuleWins ==
    risk_out # <<>> =>
        LET kill == KillSwitch(risk_in.pnl_intraday)
            gross == GrossBreach(risk_in.portfolio)
            liquidity == Breaches(risk_in.portfolio, risk_in.get_adv) # {}
            verdict == risk_out[1]
        IN  /\ kill => verdict.status = "KILL_SWITCH"
            /\ (~kill /\ gross) =>
                   verdict.status = "REJECTED" /\ verdict.reason = "Gross"
            /\ (~kill /\ ~gross /\ liquidity) =>
                   verdict.status = "REJECTED" /\ verdict.reason # "Gross"
            /\ (verdict.status = "PASSED") <=> (~kill /\ ~gross /\ ~liquidity)

\* a call on an input that violates all three rules
C10_Witness ==
    /\ risk_out # <<>>
    /\ KillSwitch(risk_in.pnl_intraday)
    /\ GrossBreach(risk_in.portfolio)
    /\ Breaches(risk_in.portfolio, risk_in.get_adv) # {}

-----------------------------------------------------------------------------
\* The rules of check_risk_limits_with_cooldown, one by one.

\* the window has at least 10 bars and its cumulative P&L is a loss of more
\* than kill_switch_sigma times the magnitude of its expected shortfall
LossBeyondShortfall(pnl_intraday) ==
    LET recent == TailOf(pnl_intraday, drawdown_window_bars)
        es95 == expected_shortfall(recent)
        total == SumRange(recent, 1, Len(recent))
    IN  /\ Len(recent) >= MinBars
        /\ total < 0
        /\ (-total) * es95[2] > kill_switch_sigma * Abs(es95[1])

\* C11: the verdict is KILL_SWITCH exactly when the window has at least 10
\* bars and its cumulative P&L is a loss beyond kill_switch_sigma times the
\* magnitude of its 95% expected shortfall; a window whose cumulative P&L is
\* a gain never yields KILL_SWITCH.
C11_KillSwitchExactlyOnLoss ==
    risk_out # <<>> =>
        (risk_out[1].status = "KILL_SWITCH"
            <=> LossBeyondShortfall(risk_in.pnl_intraday))

\* the sum of the absolute position values of a portfolio
AbsPositionValue(portfolio) ==
    SumOver([i \in DOMAIN portfolio.positions |->
                 Abs(Get(portfolio.positions[i][2], "value", 0))],
            DOMAIN portfolio.positions)

-----------------------------------------------------------------------------
\* The fills of the sequential order manager, read from the history of calls.

Filled(i) == calls[i].result.status = "FILLED"

\* the FILLED calls for the ticker of call i that came before it
EarlierFills(i) ==
    {j \in 1..(i - 1) : Filled(j) /\ calls[j].ticker = calls[i].ticker}

LastOf(S) == CHOOSE j \in S : \A k \in S : k <= j

\* the reference price of call i: the limit price when one is given,
\* otherwise the ticker's last fill price, 100 when it has none
RefPriceOf(i) ==
    IF calls[i].limit_price # <<>> THEN FxInt(calls[i].limit_price[1])
    ELSE IF EarlierFills(i) # {}
    THEN calls[LastOf(EarlierFills(i))].result.avg_fill_price
    ELSE FxInt(DefaultReferencePrice)

\* the slip on a reference price: 0.0005 of it
SlipOn(price_ref) == FxShift(FxScale(SlipRate, price_ref))

\* C13: a FILLED order with a positive reference price fills strictly above
\* the reference price when it is a buy and strictly below it when it is a
\* sell, by the same slip of 0.0005 of the reference price; the reference
\* price is the limit price when one is given, otherwise the ticker's last
\* fill price.
C13_FillPriceSlipsAgainstOrder ==
    \A i \in 1..Len(calls) :
        (Filled(i) /\ FxPos(RefPriceOf(i))) =>
            LET fill == calls[i].result.avg_fill_price
            IN  IF IsBuy(calls[i].side)
                THEN /\ FxLess(RefPriceOf(i), fill)
                     /\ FxSub(fill, RefPriceOf(i)) = SlipOn(RefPriceOf(i))
                ELSE /\ FxLess(fill, RefPriceOf(i))
                     /\ FxSub(RefPriceOf(i), fill) = SlipOn(RefPriceOf(i))

\* a sell without limit price filled on a ticker that was filled before
C13_Witness ==
    \E i \in 1..Len(calls) :
        /\ Filled(i)
        /\ ~IsBuy(calls[i].side)
        /\ calls[i].limit_price = <<>>
        /\ EarlierFills(i) # {}


\* the quantity held of a ticker in a snapshot of the order manager
QtyHeld(s, ticker) ==
    IF ticker \in DOMAIN s.positions THEN s.positions[ticker].qty ELSE 0

\* C14: a FILLED buy of quantity q lowers the cash by q * fill_price plus the
\* estimated cost and raises the ticker's quantity by q; a FILLED sell changes
\* the cash by q * fill_price less the estimated cost and lowers the quantity
\* by q; in both cases the position's price is the fill price and its value
\* the new quantity times the fill price.
C14_FillMovesCashAndPosition ==
    \A i \in 1..Len(calls) :
        Filled(i) =>
            LET c == calls[i]
                q == c.qty[1]
                fill == c.result.avg_fill_price
                cost == c.after.expected_costs[c.order_id]
                notional == FxScale(q, fill)
                pos == c.after.positions[c.ticker]
            IN  /\ cost = EstimateCost(q, RefPriceOf(i))
                /\ IF IsBuy(c.side)
                   THEN /\ c.after.cash = FxSub(c.before.cash, FxAdd(notional, cost))
                        /\ pos.qty = QtyHeld(c.before, c.ticker) + q
                   ELSE /\ c.after.cash = FxSub(FxAdd(c.before.cash, notional), cost)
                        /\ pos.qty = QtyHeld(c.before, c.ticker) - q
                /\ pos.price = fill
                /\ pos.value = FxScale(pos.qty, fill)

\* a first buy of 100 that leaves the quantity 100, followed by a filled sell
C14_Witness ==
    /\ Len(calls) = 2
    /\ Filled(1) /\ IsBuy(calls[1].side)
    /\ calls[1].after.positions[calls[1].ticker].qty = 100
    /\ Filled(2) /\ ~IsBuy(calls[2].side)
    /\ calls[2].ticker = calls[1].ticker

-----------------------------------------------------------------------------
\* cpcv_time_series_folds (src/trading_system/utils/metrics.py).  A list of
\* row numbers is a sequence of integers from 0.

\* list(range(a, b))
Range(a, b) == [i \in 1..Max(0, b - a) |-> a + i - 1]

\* line 79: the end of block idx
FoldEndAligned(idx, fold, n_splits, n) == (idx + 1) * fold
FoldEnd(idx, fold, n_splits, n) ==
    IF idx < n_splits - 1 THEN (idx + 1) * fold ELSE n

\* line 81: the rows outside the block
TrainIdxWithBlock(start, end, n) == Range(0, Max(0, start)) \o Range(start, n)
TrainIdx(start, end, n) == Range(0, Max(0, start)) \o Range(end, n)

\* cpcv_time_series_folds(df, n_splits) for a df of n rows: the list of
\* (train_idx, test_idx)
cpcv_time_series_folds(n, n_splits) ==
    IF n_splits <= 0 THEN <<<<Range(0, n), Range(0, n)>>>>
    ELSE LET fold == n \div n_splits
         IN  [k \in 1..n_splits |->
                 LET idx == k - 1
                     start == idx * fold
                     end == FoldEnd(idx, fold, n_splits, n)
                 IN  <<TrainIdx(start, end, n), Range(start, end)>>]

InitCpcv ==
    /\ IdleButCpcv
    /\ cpcv_in \in [n : 0..MaxRows, n_splits : (-1)..MaxSplits]
    /\ cpcv_out = <<>>

\* one call of cpcv_time_series_folds on the drawn input
CpcvFolds ==
    /\ cpcv_out = <<>>
    /\ cpcv_out' = <<cpcv_time_series_folds(cpcv_in.n, cpcv_in.n_splits)>>
    /\ UNCHANGED <<cpcv_in, notCpcv>>

NextCpcv == CpcvFolds

SpecCpcv == InitCpcv /\ [][NextCpcv]_vars

\* the rows of a list, and a list that runs through consecutive rows
RowsOf(list) == {list[i] : i \in DOMAIN list}
Contiguous(list) == \A i \in 1..(Len(list) - 1) : list[i + 1] = list[i] + 1
NoRepeat(list) == Cardinality(RowsOf(list)) = Len(list)

\* C15: for n >= 0 rows and n_splits = k >= 1 there are exactly k folds, whose
\* test lists are contiguous, pairwise disjoint and together cover 0..n-1.
C15_TestFoldsPartitionRows ==
    (cpcv_out # <<>> /\ cpcv_in.n_splits >= 1) =>
        LET folds == cpcv_out[1]
            test(k) == folds[k][2]
        IN  /\ Len(folds) = cpcv_in.n_splits
            /\ \A k \in DOMAIN folds : Contiguous(test(k)) /\ NoRepeat(test(k))
            /\ \A j, k \in DOMAIN folds :
                   j # k => RowsOf(test(j)) \cap RowsOf(test(k)) = {}
            /\ UNION {RowsOf(test(k)) : k \in DOMAIN folds} = 0..(cpcv_in.n - 1)

\* a call with more than one block whose row count is no multiple of the
\* block count
C15_Witness ==
    /\ cpcv_out # <<>>
    /\ cpcv_in.n_splits > 1
    /\ cpcv_in.n > cpcv_in.n_splits
    /\ cpcv_in.n % cpcv_in.n_splits # 0

-----------------------------------------------------------------------------
\* C17: with an empty universe of expected returns the call raises ValueError
\* and returns no result; no solver is called and no fallback weights are
\* built.
C17_EmptyUniverseRaises ==
    (opt_out # <<>> /\ DOMAIN opt_in.expected_returns = {}) =>
        /\ opt_out[1] = [raised |-> "ValueError"]
        /\ ~HasResult(opt_out)
        /\ opt_solver = NoSolver

\* a call on an empty universe with cvxpy installed
C17_Witness ==
    /\ opt_out # <<>>
    /\ DOMAIN opt_in.expected_returns = {}
    /\ opt_in.cvxpy


\* the positions of a portfolio whose price or whose ADV is not positive
NonPositiveInputs(portfolio, get_adv) ==
    {i \in DOMAIN portfolio.positions :
        \/ Get(portfolio.positions[i][2], "price", 1) <= 0
        \/ get_adv[1][portfolio.positions[i][1]] <= 0}

\* C18: a call of the risk monitor that reaches the liquidity rule with a
\* position whose price or ADV is not positive raises instead of returning a
\* verdict.
C18_NonPositiveInputRaises ==
    (/\ risk_out # <<>>
     /\ risk_in.get_adv # <<>>
     /\ ~KillSwitch(risk_in.pnl_intraday)
     /\ ~GrossBreach(risk_in.portfolio)
     /\ NonPositiveInputs(risk_in.portfolio, risk_in.get_adv) # {}) =>
        risk_out[1].status = "RAISED"

-----------------------------------------------------------------------------
\* bayesian_kelly (src/trading_system/risk_management.py), its last step: the
\* cap of each weight by the participation it implies, lines 89-97.  The
\* bootstrap estimate and the expected-shortfall scaling of lines 68-87 are
\* not computed: the weights they leave are an input.  A weight is a fraction
\* <<numerator, denominator>>; prices, ADVs and the portfolio value are
\* integers; adv_limit is its default 0.05, 1/20.

\* participation > adv_limit, with px = max(1e-6, price), adv = max(1.0, adv)
OverLimit(w, price, adv_raw, portfolio_value) ==
    LET adv == Max(1, adv_raw)
    IN  IF price > 0
        THEN 20 * Abs(w[1]) * portfolio_value > w[2] * adv * price
        ELSE (w[2] * adv) \div 20000000 < Abs(w[1]) * portfolio_value

\* lines 94-96: weights[ticker] *= adv_limit / participation
CapWeightNever(w, price, adv_raw, portfolio_value) == w
CapWeight(w, price, adv_raw, portfolio_value) ==
    LET adv == Max(1, adv_raw)
        sgn == IF w[1] < 0 THEN -1 ELSE 1
    IN  IF ~OverLimit(w, price, adv_raw, portfolio_value) THEN w
        ELSE IF price > 0 THEN <<sgn * adv * price, 20 * portfolio_value>>
        ELSE <<sgn * adv, 20000000 * portfolio_value>>

\* lines 89-97
CappedWeights(in) ==
    IF in.accessors
    THEN [t \in DOMAIN in.weights |->
             CapWeight(in.weights[t], in.price[t], in.adv[t], in.portfolio_value)]
    ELSE in.weights

\* the inputs of the calls
KellyTickers == {"AAPL", "MSFT"}
KellyInputs ==
    [weights : [KellyTickers -> {<<0, 1>>, <<1, 100>>, <<-30, 100>>}],
     price : [KellyTickers -> {0, 2}],
     adv : [KellyTickers -> {0, 50}],
     portfolio_value : {0, 100},
     accessors : BOOLEAN]

InitKelly ==
    /\ IdleButKelly
    /\ kelly_in \in KellyInputs
    /\ kelly_res = <<>>

\* the end of one call of bayesian_kelly
BayesianKellyCap ==
    /\ kelly_res = <<>>
    /\ kelly_res' = <<CappedWeights(kelly_in)>>
    /\ UNCHANGED <<kelly_in, notKelly>>

NextKelly == BayesianKellyCap

SpecKelly == InitKelly /\ [][NextKelly]_vars

\* |w| * portfolio_value / (ADV * price) <= adv_limit, for a positive price
\* and a positive ADV
WithinLimit(w, price, adv, portfolio_value) ==
    20 * Abs(w[1]) * portfolio_value <= w[2] * adv * price

-----------------------------------------------------------------------------
\* the equity curve holds what it held, and at most more
EquityCurveGrows ==
    /\ Len(edb_equity_curve') >= Len(edb_equity_curve)
    /\ SubSeq(edb_equity_curve', 1, Len(edb_equity_curve)) = edb_equity_curve

\* C20: the equity curve has one entry for each date processed, in the order
\* of the dates, so one per price date when the run ends; its first entry is
\* the initial capital; an entry is never changed once appended.
C20_EquityCurveAppendOnly ==
    /\ [](/\ Len(edb_equity_curve) = edb_i
          /\ edb_i = Len(prices) => Len(edb_equity_curve) = Len(prices)
          /\ edb_equity_curve # <<>> => edb_equity_curve[1] = <<>>)
    /\ [][EquityCurveGrows]_vars

\* a finished run over several dates on which the capital changed
C20_Witness ==
    /\ Len(prices) >= 2
    /\ edb_i = Len(prices)
    /\ Len(edb_equity_curve) = Len(prices)
    /\ edb_equity_curve[Len(prices)] # edb_equity_curve[1]

-----------------------------------------------------------------------------
\* the weights held when date i begins: all cash before the first date
HeldBefore(i) == IF i = 1 THEN [t \in columns |-> 0] ELSE weights_after[i - 1]

\* C22: a TradeRecord exists for a date and an asset only when the asset's
\* target weight differs from its current weight on that date, and its
\* trade_size is weight_after - weight_before and is not zero; a date with
\* no signal entry carries the current weights forward and has no record.
C22_TradeRecordsOnlyForChanges ==
    /\ \A r \in trades :
           /\ r.date \in 1..edb_i
           /\ r.weight_before = HeldBefore(r.date)[r.ticker]
           /\ r.weight_after = weights_after[r.date][r.ticker]
           /\ r.weight_after # r.weight_before
           /\ r.trade_size = r.weight_after - r.weight_before
           /\ r.trade_size # 0
    /\ \A i \in 1..edb_i :
           signals[i] = <<>> =>
               /\ weights_after[i] = HeldBefore(i)
               /\ \A r \in trades : r.date # i

\* a date that changes one asset and leaves the other, after a date with no
\* signal entry that carried weights forward
C22_Witness ==
    /\ \E r \in trades : \E u \in columns :
           /\ u # r.ticker
           /\ weights_after[r.date][u] = HeldBefore(r.date)[u]
           /\ weights_after[r.date][u] # 0
    /\ \E i \in 2..edb_i : signals[i] = <<>> /\ weights_after[i] # [t \in columns |-> 0]

-----------------------------------------------------------------------------
FilledCalls == {i \in CallIds : calls[i].result.status = "FILLED"}

\* C23: after any sequence of send_order calls, total_value is the cash plus
\* the sum of the positions' values, the equity curve has one entry for each
\* FILLED order and none for a duplicate, and its last entry is the current
\* total_value.
C23_TotalValueAndEquityCurve ==
    /\ total_value = PortfolioValue(cash, positions)
    /\ Len(equity_curve) = Cardinality(FilledCalls)
    /\ \A i \in CallIds :
           Len(calls[i].after.equity_curve) =
               Len(calls[i].before.equity_curve)
                   + (IF calls[i].result.status = "FILLED" THEN 1 ELSE 0)
    /\ equity_curve # <<>> => equity_curve[Len(equity_curve)] = total_value

\* a fill that moved the total value, followed by its duplicate
C23_Witness ==
    \E i, j \in CallIds :
        /\ i < j
        /\ calls[i].result.status = "FILLED"
        /\ calls[j].result.status = "IGNORED_DUPLICATE"
        /\ Len(equity_curve) = 1
        /\ total_value # FxInt(InitialCash)
        /\ positions # EmptyDict

-----------------------------------------------------------------------------
-----------------------------------------------------------------------------
\* C25: a send_order call that raises leaves the order manager as it was
\* before the call, its idempotency key not registered, so that a later call
\* with the same account, ticker and client token that does not raise is
\* FILLED.
C25_RaiseLeavesNoTrace ==
    \A i \in CallIds :
        calls[i].result.status = "RAISED" =>
            /\ calls[i].after = calls[i].before
            /\ \A j \in CallIds :
                   (/\ i < j
                    /\ calls[j].key = calls[i].key
                    /\ \A k \in 1..(j - 1) :
                           calls[k].key = calls[i].key => ~Returned(calls[k]))
                       => calls[j].result.status \in {"FILLED", "RAISED"}

\* C26: two send_order calls have the same idempotency key only if their
\* account id, ticker and client order id are all equal, also when one of
\* them contains the ':' that separates them in the key.
C26_DistinctTriplesDistinctKeys ==
    \A i, j \in CallIds :
        calls[i].key = calls[j].key => Triple(calls[i]) = Triple(calls[j])

\* C27: a send_order call made without a client_order_id is never
\* IGNORED_DUPLICATE: if it returns, it returns FILLED, also when an earlier
\* call for the same account and ticker was made in the same millisecond.
C27_NoTokenNeverDuplicate ==
    \A i \in CallIds :
        (calls[i].client_order_id = NoneStr /\ Returned(calls[i]))
            => calls[i].result.status = "FILLED"

-----------------------------------------------------------------------------
\* the capital when date i begins
CapitalBefore(i) == IF i = 1 THEN <<>> ELSE edb_equity_curve[i - 1]

\* C28: on every date whose target weights differ from the weights held,
\* the first date's move out of cash included, the capital is reduced by
\* sum(|delta w|) * comision_bp / 10000 of itself and there is a TradeRecord
\* for every asset whose weight changes.
C28_EveryChangeChargedAndRecorded ==
    \A i \in 1..edb_i :
        weights_after[i] # HeldBefore(i) =>
            LET delta == Delta(weights_after[i], HeldBefore(i))
                after == edb_equity_curve[i]
            IN  /\ Len(after) = Len(CapitalBefore(i)) + 1
                /\ after[Len(after)].fee = CommissionShare(delta)
                /\ \A t \in columns :
                       delta[t] # 0 =>
                           \E r \in trades :
                               /\ r.date = i
                               /\ r.ticker = t
                               /\ r.trade_size = delta[t]

-----------------------------------------------------------------------------
\* StrategicAgent.cpcv_validate (src/trading_system/strategic_agent.py) and
\* pbo_approx (src/trading_system/utils/metrics.py).  The fit of the model
\* and the Sharpe ratio of a fold are not computed: the score of a fold is
\* any of ScoreValues.  A score is <<x>> for the number x and <<>> for NaN
\* (the Sharpe ratio of a fold of one row).  Indices start at 1.

\* the order np.argsort sorts by: NaN after every number
ScoreBefore(a, b) == a # <<>> /\ (b = <<>> \/ a[1] < b[1])

\* np.argsort(scores): the indices in ascending order of score, equal scores
\* in the order of their indices (arrays this short are sorted by insertion)
ArgSort(scores) ==
    LET n == Len(scores)
        rank(i) == Cardinality({j \in 1..n :
                       \/ ScoreBefore(scores[j], scores[i])
                       \/ (j < i /\ ~ScoreBefore(scores[i], scores[j]))})
    IN  [r \in 1..n |-> CHOOSE i \in 1..n : rank(i) = r - 1]

\* np.argsort(scores)[::-1][0]
Best(scores) == ArgSort(scores)[Len(scores)]

pbo_approx(scores_is, scores_oos) ==
    IF Len(scores_is) # Len(scores_oos) \/ Len(scores_is) = 0 THEN 1
    ELSE IF Best(scores_is) = Best(scores_oos) THEN 0 ELSE 1

Reversed(s) == [i \in 1..Len(s) |-> s[Len(s) + 1 - i]]

\* line 70: pbo_approx(np.array(sharpe_scores), np.array(sharpe_scores))
\* if sharpe_scores else 0.0
PboAgainstReversed(scores) ==
    IF scores = <<>> THEN 0 ELSE pbo_approx(scores, Reversed(scores))
PboOf(scores) ==
    IF scores = <<>> THEN 0 ELSE pbo_approx(scores, scores)

ScoreValues == {<<>>, <<-1>>, <<0>>, <<2>>}

InitPbo ==
    /\ IdleButPbo
    /\ \E k \in 0..MaxFolds : sharpe_scores \in [1..k -> ScoreValues]
    /\ pbo = <<>>

\* line 70 of cpcv_validate
CpcvValidatePbo ==
    /\ pbo = <<>>
    /\ pbo' = <<PboOf(sharpe_scores)>>
    /\ UNCHANGED <<sharpe_scores, notPbo>>

NextPbo == CpcvValidatePbo

SpecPbo == InitPbo /\ [][NextPbo]_vars

\* C30: the pbo that cpcv_validate reports is 0 whenever there is at least
\* one fold, whatever the Sharpe ratios of the folds are.
C30_PboAlwaysZero ==
    (pbo # <<>> /\ sharpe_scores # <<>>) => pbo[1] = 0

\* folds whose best score is not the first, and two that tie for the best
C30_Witness ==
    /\ pbo # <<>>
    /\ Len(sharpe_scores) >= 3
    /\ Best(sharpe_scores) # 1
    /\ \E i, j \in 1..Len(sharpe_scores) :
           /\ i # j
           /\ sharpe_scores[i] = sharpe_scores[j]
           /\ Best(sharpe_scores) = j
    /\ pbo_approx(sharpe_scores, Reversed(sharpe_scores)) = 1

-----------------------------------------------------------------------------
\* every weight of w is within max_position_pct and the gross leverage of w
\* is at most 1
WithinPositionLimits(w) ==
    /\ w.den > 0
    /\ \A l \in DOMAIN w.num :
           Abs(w.num[l]) * max_position_pct.den <= max_position_pct.num * w.den
    /\ AbsSum(w) <= w.den

\* C21: on every date the blended weight vector that is recorded and carried
\* to the next date has every weight within [-max_position_pct,
\* max_position_pct] and a gross leverage of at most 1.
C21_RecordedWeightsWithinLimits ==
    /\ \A i \in 1..Len(weights_hist) : WithinPositionLimits(weights_hist[i])
    /\ bt_i >= 1 => prev_weights = weights_hist[bt_i]
    /\ Len(weights_hist) = bt_i

\* two dates recorded, the second after a Kelly vector that is not zero
C21_Witness ==
    /\ bt_i >= 2
    /\ kelly_out[bt_i].den > 0
    /\ AbsSum(kelly_out[bt_i]) > 0
    /\ prev_weights = weights_hist[bt_i]

\* C29: a run of Backtester.run reports a total_return, and it is the final
\* portfolio value over the initial capital minus 1: the compounding of the
\* return of every date, the first included.
C29_TotalReturnCompoundsEveryDate ==
    /\ ~bt_raised
    /\ bt_metrics # <<>> =>
           LET g == Growth(returns_hist, 1, Len(returns_hist))
           IN  SameRatio(bt_metrics[1].total_return[1], bt_metrics[1].total_return[2],
                         g[1] - g[2], g[2])

=============================================================================
